---- MODULE Spec2Model ----
(***************************************************************************)
(* A model of ruff-web's two core subsystems:                              *)
(*   - the Recess Relay routes of routes.py (relay_home, relay_view,       *)
(*     relay_add, relay_close) over the RelaySession / RelayEntry tables;  *)
(*   - import_from_json of export_import.py over the Stash / Collection /  *)
(*     Tag tables.                                                         *)
(* Strings that the code trims, measures or truncates are sequences of     *)
(* one-character strings; the store is the set of committed rows.          *)
(***************************************************************************)
EXTENDS Integers, Sequences, FiniteSets, Bags, TLC

VARIABLES
    relay_sessions,   \* committed rows of table relay_sessions
    relay_entries,    \* committed rows of table relay_entries
    now,              \* what datetime.utcnow() returned when it was read last
    last,             \* the response to the relay request answered last
    pc,               \* per caller: where its in-flight relay_add stands
    local,            \* per caller: the local variables of its in-flight relay_add
    collections,      \* committed rows of table collections
    tags,             \* committed rows of table tags
    stashes,          \* committed rows of table stashes
    stash_tags,       \* committed rows of the association table stash_tags (a bag)
    minted,           \* number of ids uuid4() has produced for stashes
    result,           \* who imported what last, and the dictionary import_from_json returned
    pending           \* per connection: the import whose transaction is still open

relayVars == <<relay_sessions, relay_entries, now, last, pc, local>>

storeVars == <<collections, tags, stashes, stash_tags, minted, result, pending>>

vars == <<relay_sessions, relay_entries, now, last, pc, local,
          collections, tags, stashes, stash_tags, minted, result, pending>>

----------------------------------------------------------------------------
(* Bounds of the model *)

MaxRows == 3          \* relay_add proceeds to insert only while fewer rows are committed
MaxTime == 1          \* latest time the clock reaches in one behaviour
MaxCapacityAsked == 4 \* largest max_entries a start form asks for
MaxUuid == 2          \* ids uuid4() mints for stashes in one behaviour
MaxItems == 2         \* longest checklist a request carries

----------------------------------------------------------------------------
(* Callers and inputs *)

Guest == 0                      \* g.user is None
Users == {1, 2}                 \* users.id of the registered users
Callers == Users \cup {Guest}

None == <<"None">>              \* Python's None in a nullable column or field

Username(u) == IF u = 1 THEN <<"u", "1">> ELSE <<"u", "2">>

Whitespace == {" "}

RECURSIVE LStrip(_)
LStrip(s) == IF s # <<>> /\ Head(s) \in Whitespace THEN LStrip(Tail(s)) ELSE s

RECURSIVE RStrip(_)
RStrip(s) ==
    IF s # <<>> /\ s[Len(s)] \in Whitespace THEN RStrip(SubSeq(s, 1, Len(s) - 1)) ELSE s

\* str.strip()
Strip(s) == RStrip(LStrip(s))

\* s[:n]
Take(s, n) == IF Len(s) <= n THEN s ELSE SubSeq(s, 1, n)

Repeat(c, n) == [i \in 1..n |-> c]

\* generate_relay_code draws from 36^6 codes; the model draws from these
Codes == {"AAA111", "BBB222"}

\* the <code> path segment as typed by a caller, and code.upper()
CodeInputs == {"aaa111", "BBB222"}
Upper(c) == IF c = "aaa111" THEN "AAA111" ELSE c

\* request.form values of the start form's max_entries field
Absent == [kind |-> "absent", n |-> 0]
NotANumber == [kind |-> "text", n |-> 0]
Number(n) == [kind |-> "int", n |-> n]

\* the start requests the model submits: who, with which form
StartRequests ==
    {[caller |-> 1, title |-> <<>>, prompt |-> <<"P", " ">>, max_entries |-> Number(1)],
     [caller |-> 2, title |-> <<" ", "T">>, prompt |-> <<>>,
      max_entries |-> Number(MaxCapacityAsked)],
     [caller |-> Guest, title |-> <<>>, prompt |-> <<>>, max_entries |-> Absent]}

\* the add requests the model submits: who, with which author_name and body
Adders == {2, Guest}
AuthorInputs == {<<"z", " ">>}
LongBody == Repeat("x", 241)
BodyInputs == {<<>>, <<" ">>, <<" ", "a", " ">>, LongBody}

----------------------------------------------------------------------------
(* The relay tables *)

DefaultTitle == <<"R", "e", "c", "e", "s", "s", " ", "R", "e", "l", "a", "y">>
GuestName == <<"G", "u", "e", "s", "t">>
NoTime == -1                    \* closed_at IS NULL

Min(a, b) == IF a < b THEN a ELSE b
Max(a, b) == IF a > b THEN a ELSE b

\* RelaySession.query.filter_by(code=...).first(): None is the empty set
RelayByCode(sessions, code) == {s \in sessions : s.code = code}

EntriesOf(entries, sid) == {e \in entries : e.session_id = sid}

\* db.session.query(func.max(RelayEntry.position)).filter_by(session_id=...).scalar() or 0
MaxPosition(entries, sid) ==
    LET ps == {e.position : e \in EntriesOf(entries, sid)}
    IN  IF ps = {} THEN 0 ELSE CHOOSE m \in ps : \A q \in ps : q <= m

\* a variant without the lower limit
ClampMaxEntries_NoFloor(raw) == Min(IF raw.kind = "int" THEN raw.n ELSE 8, 20)

\* a variant whose loop never tries again
CodeTaken_Never(sessions, code) == FALSE

\* while RelaySession.query.filter_by(code=code).first(): the code is in use
CodeTaken(sessions, code) == RelayByCode(sessions, code) # {}

\* int(max_entries_raw) if max_entries_raw else 8, ValueError -> 8, then the clamp
ClampMaxEntries(raw) ==
    LET asked == IF raw.kind = "int" THEN raw.n ELSE 8
    IN  Max(3, Min(asked, 20))

\* a variant that leaves a gap after the maximum
NextPosition_Skips(entry_count) == entry_count + 2

\* a variant that refuses one entry early
AtCapacity_Early(entry_count, max_entries) == entry_count + 1 >= max_entries

\* if entry_count >= relay.max_entries: "This relay already hit its limit."
AtCapacity(entry_count, max_entries) == entry_count >= max_entries

\* position of the entry relay_add inserts
NextPosition(entry_count) == entry_count + 1

\* author of the entry relay_add inserts
AuthorOf(caller, author_raw) ==
    LET a == IF caller # Guest
             THEN Username(caller)
             ELSE Strip(IF author_raw = <<>> THEN GuestName ELSE author_raw)
    IN  Take(IF a = <<>> THEN GuestName ELSE a, 80)

NewEntry(entries, sid, author, body, position) ==
    [id |-> Cardinality(entries) + 1,
     session_id |-> sid,
     author_name |-> author,
     body |-> body,
     position |-> position]

\* a variant that flips the flag
CloseRow_Toggles(s, t) == [s EXCEPT !.is_closed = ~s.is_closed, !.closed_at = t]

\* a variant that also blanks the prompt
CloseRow_ClearsPrompt(s, t) ==
    [s EXCEPT !.is_closed = TRUE, !.closed_at = t, !.prompt = <<>>]

\* a variant that stamps closed_at on the first close only
CloseRow_StampsOnce(s, t) ==
    [s EXCEPT !.is_closed = TRUE, !.closed_at = IF s.is_closed THEN @ ELSE t]

\* relay.is_closed = True; relay.closed_at = datetime.utcnow()
CloseRow(s, t) == [s EXCEPT !.is_closed = TRUE, !.closed_at = t]

\* what the caller is answered: the flash category and, for a page, its flags;
\* was_closed logs the is_closed a close request loaded (the caller is not told)
Response(op, outcome, can_add, is_owner, was_closed) ==
    [op |-> op, outcome |-> outcome, can_add |-> can_add, is_owner |-> is_owner,
     was_closed |-> was_closed]

Flash(op, outcome) == Response(op, outcome, FALSE, FALSE, FALSE)

NoLocal == [relay_id |-> 0, max_entries |-> 0, body |-> <<>>, author |-> <<>>,
            entry_count |-> 0]

\* database connections that serve import requests at the same time
Connections == {"c1", "c2"}

\* the connection has no transaction open
NoPending == [active |-> FALSE]

\* no import has been answered yet
NoResult == [user |-> Guest, doc |-> "", returned |-> [success |-> FALSE]]

Init ==
    /\ relay_sessions = {}
    /\ relay_entries = {}
    /\ now = 0
    /\ last = Flash("none", "none")
    /\ pc = [c \in Callers |-> "idle"]
    /\ local = [c \in Callers |-> NoLocal]
    /\ collections = {}
    /\ tags = {}
    /\ stashes = {}
    /\ stash_tags = EmptyBag
    /\ minted = 0
    /\ result = NoResult
    /\ pending = [c \in Connections |-> NoPending]

\* the model's bound on the growth of relay_entries
BelowMaxRows == Cardinality(relay_entries) < MaxRows

----------------------------------------------------------------------------
(* The relay routes, each request run to completion *)

\* POST /relay, action=start
relay_home(caller, title_raw, prompt_raw, max_entries_raw, code) ==
    /\ IF caller = Guest
       THEN /\ last' = Flash("start", "login_required")
            /\ UNCHANGED relay_sessions
       ELSE LET title == IF Strip(title_raw) = <<>> THEN DefaultTitle ELSE Strip(title_raw)
                prompt == Strip(prompt_raw)
                relay == [id |-> Cardinality(relay_sessions) + 1,
                          code |-> code,
                          owner_id |-> caller,
                          title |-> title,
                          prompt |-> IF prompt = <<>> THEN None ELSE prompt,
                          is_closed |-> FALSE,
                          max_entries |-> ClampMaxEntries(max_entries_raw),
                          closed_at |-> NoTime]
            IN  \* the loop ends with a code no session has
                /\ ~CodeTaken(relay_sessions, code)
                /\ relay_sessions' = relay_sessions \cup {relay}
                /\ last' = Flash("start", "started")
    /\ UNCHANGED <<relay_entries, now, pc, local>>
    /\ UNCHANGED storeVars

\* GET /relay/<code>
relay_view(caller, code_raw) ==
    /\ LET found == RelayByCode(relay_sessions, Upper(code_raw))
       IN  IF found = {}
           THEN last' = Flash("view", "not_found")
           ELSE \E relay \in found :
                LET entry_count == Cardinality(EntriesOf(relay_entries, relay.id))
                IN  last' = Response("view", "shown",
                                     (~relay.is_closed) /\ entry_count < relay.max_entries,
                                     caller # Guest /\ caller = relay.owner_id, FALSE)
    /\ UNCHANGED <<relay_sessions, relay_entries, now, pc, local>>
    /\ UNCHANGED storeVars

\* a variant without the limit on the length
AddRejection_AnyLength(relay, body) ==
    IF relay.is_closed THEN "closed"
    ELSE IF body = <<>> THEN "empty"
    ELSE "none"

\* the checks of relay_add before it reads the maximum position
AddRejection(relay, body) ==
    IF relay.is_closed THEN "closed"
    ELSE IF body = <<>> THEN "empty"
    ELSE IF Len(body) > 240 THEN "too_long"
    ELSE "none"

\* POST /relay/<code>/add
relay_add(caller, code_raw, body_raw, author_raw) ==
    /\ pc[caller] = "idle"
    /\ LET found == RelayByCode(relay_sessions, Upper(code_raw))
           body == Strip(body_raw)
       IN  IF found = {}
           THEN /\ last' = Flash("add", "not_found")
                /\ UNCHANGED relay_entries
           ELSE \E relay \in found :
                LET entry_count == MaxPosition(relay_entries, relay.id)
                IN  IF AddRejection(relay, body) # "none"
                    THEN /\ last' = Flash("add", AddRejection(relay, body))
                         /\ UNCHANGED relay_entries
                    ELSE IF AtCapacity(entry_count, relay.max_entries)
                    THEN /\ last' = Flash("add", "full")
                         /\ UNCHANGED relay_entries
                    ELSE /\ BelowMaxRows
                         /\ relay_entries' = relay_entries \cup
                                {NewEntry(relay_entries, relay.id, AuthorOf(caller, author_raw),
                                          body, NextPosition(entry_count))}
                         /\ last' = Flash("add", "added")
    /\ UNCHANGED <<relay_sessions, now, pc, local>>
    /\ UNCHANGED storeVars

\* a variant that lets every logged-in caller through
NotOwner_Never(relay, caller) == FALSE

\* relay.owner_id != g.user.id
NotOwner(relay, caller) == relay.owner_id # caller

\* POST /relay/<code>/close; utcnow is what the clock reads during the request
relay_close(caller, code_raw, utcnow) ==
    /\ IF caller = Guest
       THEN /\ last' = Flash("close", "login_required")
            /\ UNCHANGED relay_sessions
       ELSE LET found == RelayByCode(relay_sessions, Upper(code_raw))
            IN  IF found = {}
                THEN /\ last' = Flash("close", "not_found")
                     /\ UNCHANGED relay_sessions
                ELSE \E relay \in found :
                     IF NotOwner(relay, caller)
                     THEN /\ last' = Flash("close", "unauthorized")
                          /\ UNCHANGED relay_sessions
                     ELSE /\ relay_sessions' =
                                (relay_sessions \ {relay}) \cup {CloseRow(relay, utcnow)}
                          /\ last' = Response("close", "closed_ok", FALSE, FALSE,
                                            relay.is_closed)
    /\ now' = IF relay_sessions' = relay_sessions THEN now ELSE utcnow
    /\ UNCHANGED <<relay_entries, pc, local>>
    /\ UNCHANGED storeVars

\* the clock does not run backwards
Times == now..MaxTime

Start ==
    \E r \in StartRequests, code \in Codes :
        relay_home(r.caller, r.title, r.prompt, r.max_entries, code)

View == \E caller \in Callers, code \in CodeInputs : relay_view(caller, code)

Add ==
    \E caller \in Adders, code \in CodeInputs, b \in BodyInputs, a \in AuthorInputs :
        relay_add(caller, code, b, a)

Close == \E caller \in Callers, code \in CodeInputs, t \in Times : relay_close(caller, code, t)

Next == Start \/ View \/ Add \/ Close

Spec == Init /\ [][Next]_vars

----------------------------------------------------------------------------
(* relay_add by independent callers: its three store accesses interleave *)

\* line 911 to 922: load the session, check is_closed, validate the body
relay_add_load(caller, code_raw, body_raw, author_raw) ==
    /\ pc[caller] = "idle"
    /\ LET found == RelayByCode(relay_sessions, Upper(code_raw))
           body == Strip(body_raw)
       IN  IF found = {}
           THEN /\ last' = Flash("add", "not_found")
                /\ UNCHANGED <<pc, local>>
           ELSE \E relay \in found :
                IF AddRejection(relay, body) # "none"
                THEN /\ last' = Flash("add", AddRejection(relay, body))
                     /\ UNCHANGED <<pc, local>>
                ELSE /\ BelowMaxRows
                     /\ pc' = [pc EXCEPT ![caller] = "query"]
                     /\ local' = [local EXCEPT ![caller] =
                            [relay_id |-> relay.id, max_entries |-> relay.max_entries,
                             body |-> body, author |-> AuthorOf(caller, author_raw),
                             entry_count |-> 0]]
                     /\ UNCHANGED last
    /\ UNCHANGED <<relay_sessions, relay_entries, now>>
    /\ UNCHANGED storeVars

\* line 924 to 927: read the maximum position, reject at capacity
relay_add_query(caller) ==
    /\ pc[caller] = "query"
    /\ LET entry_count == MaxPosition(relay_entries, local[caller].relay_id)
       IN  IF AtCapacity(entry_count, local[caller].max_entries)
           THEN /\ last' = Flash("add", "full")
                /\ pc' = [pc EXCEPT ![caller] = "idle"]
                /\ local' = [local EXCEPT ![caller] = NoLocal]
           ELSE /\ pc' = [pc EXCEPT ![caller] = "commit"]
                /\ local' = [local EXCEPT ![caller].entry_count = entry_count]
                /\ UNCHANGED last
    /\ UNCHANGED <<relay_sessions, relay_entries, now>>
    /\ UNCHANGED storeVars

\* line 933 to 940: insert the entry and commit
relay_add_commit(caller) ==
    /\ pc[caller] = "commit"
    /\ relay_entries' = relay_entries \cup
            {NewEntry(relay_entries, local[caller].relay_id, local[caller].author,
                      local[caller].body, NextPosition(local[caller].entry_count))}
    /\ last' = Flash("add", "added")
    /\ pc' = [pc EXCEPT ![caller] = "idle"]
    /\ local' = [local EXCEPT ![caller] = NoLocal]
    /\ UNCHANGED <<relay_sessions, now>>
    /\ UNCHANGED storeVars

\* behaviours with one relay session: every draw of generate_relay_code is the same code
StartSingle ==
    \E r \in StartRequests, code \in {"AAA111"} :
        relay_home(r.caller, r.title, r.prompt, r.max_entries, code)

AddLoad ==
    \E caller \in Adders, code \in CodeInputs, b \in BodyInputs, a \in AuthorInputs :
        relay_add_load(caller, code, b, a)

AddQuery == \E caller \in Adders : relay_add_query(caller)

AddCommit == \E caller \in Adders : relay_add_commit(caller)

NextConcurrent == StartSingle \/ View \/ AddLoad \/ AddQuery \/ AddCommit \/ Close

SpecConcurrent == Init /\ [][NextConcurrent]_vars

----------------------------------------------------------------------------
(* Properties of the relay routes *)

PositionsOf(entries, sid) == {e.position : e \in EntriesOf(entries, sid)}

Count(entries, sid) == Cardinality(EntriesOf(entries, sid))

\* the positions of every session's entries are exactly 1..n, n its number of entries
PositionsDense(sessions, entries) ==
    \A s \in sessions : PositionsOf(entries, s.id) = 1..Count(entries, s.id)

\* every row inserted by the step has position = previous maximum of its session + 1
AppendedAtNext ==
    \A e \in relay_entries' \ relay_entries :
        /\ \A o \in EntriesOf(relay_entries, e.session_id) : o.position < e.position
        /\ \/ e.position = 1
           \/ \E o \in EntriesOf(relay_entries, e.session_id) : o.position = e.position - 1

\* C1: when relay requests run to completion one at a time, the positions of every
\* session's entries are exactly 1..n without gaps or duplicates, and every
\* successful append assigns the previous maximum position + 1 (1 for the first).
C1_PositionsDense ==
    [][PositionsDense(relay_sessions', relay_entries') /\ AppendedAtNext]_vars

\* two sessions hold entries, one of them two, and the last request appended
C1_Witness ==
    /\ last.op = "add" /\ last.outcome = "added"
    /\ \E s, t \in relay_sessions :
        /\ s.id # t.id
        /\ Count(relay_entries, s.id) >= 2
        /\ Count(relay_entries, t.id) >= 1

\* C2: no two committed entries of one session have the same position, however
\* the steps of concurrent relay_add requests interleave.
C2_NoDuplicatePosition ==
    \A e, o \in relay_entries :
        (e.session_id = o.session_id /\ e.position = o.position) => e = o

\* C3: the number of committed entries of a session never exceeds its max_entries,
\* however the steps of concurrent relay_add requests interleave.
C3_CountWithinCapacity ==
    \A s \in relay_sessions : Count(relay_entries, s.id) <= s.max_entries

\* entries arrive (ids grow) in the order of their positions
ArrivalOrder(entries) ==
    \A e, o \in entries :
        (e.session_id = o.session_id /\ e.id < o.id) => e.position < o.position

\* C4: on an open session of capacity N, valid appends issued one after another
\* succeed while the session holds fewer than N entries, the k-th receiving
\* position k in arrival order, and the append after the N-th is answered "full"
\* and adds nothing. The handler takes no entry count from the caller: it reads
\* the store again on every request.
C4_CapacityInArrivalOrder ==
    [][last'.op = "add" =>
       \A code \in CodeInputs, b \in BodyInputs, caller \in Adders, a \in AuthorInputs :
         \A relay \in RelayByCode(relay_sessions, Upper(code)) :
            (/\ ~relay.is_closed
             /\ Strip(b) # <<>> /\ Len(Strip(b)) <= 240
             /\ relay_add(caller, code, b, a))
            => LET n == Count(relay_entries, relay.id)
               IN  IF n < relay.max_entries
                   THEN /\ last'.outcome = "added"
                        /\ \E e \in relay_entries' :
                            /\ relay_entries' = relay_entries \cup {e}
                            /\ e \notin relay_entries
                            /\ e.session_id = relay.id
                            /\ e.position = n + 1
                            /\ e.body = Strip(b)
                        /\ ArrivalOrder(relay_entries')
                   ELSE /\ last'.outcome = "full"
                        /\ relay_entries' = relay_entries]_vars

\* a session of capacity 3 holds positions 1, 2, 3 and a further append was refused
C4_Witness ==
    /\ last.op = "add" /\ last.outcome = "full"
    /\ \E s \in relay_sessions :
        /\ ~s.is_closed
        /\ s.max_entries = 3
        /\ PositionsOf(relay_entries, s.id) = 1..3
        /\ Count(relay_entries, s.id) = 3

\* C5: once a session's is_closed is true no relay request makes it false again.
C5_ClosedIsAbsorbing ==
    [][\A s \in relay_sessions :
         s.is_closed => \E t \in relay_sessions' : t.id = s.id /\ t.is_closed]_vars

\* the owner closed a closed session again, beside another session still open
C5_Witness ==
    /\ last.op = "close" /\ last.outcome = "closed_ok" /\ last.was_closed
    /\ \E s, t \in relay_sessions : s.is_closed /\ ~t.is_closed

\* C6: no entry is added to a closed session: a step taken while is_closed is
\* committed leaves the entries of that session as they were.
C6_NoEntryAfterClose ==
    [][\A s \in relay_sessions :
         s.is_closed => EntriesOf(relay_entries', s.id) = EntriesOf(relay_entries, s.id)]_vars

\* C7: a close request by a caller who is not the session's owner is rejected
\* ("unauthorized" for a logged-in caller, the login redirect for an anonymous
\* one) and changes neither the sessions nor the entries.
C7_NonOwnerCloseRejected ==
    [][last'.op = "close" =>
       \A caller \in Callers, code \in CodeInputs, t \in 0..MaxTime :
         \A relay \in RelayByCode(relay_sessions, Upper(code)) :
            (relay.owner_id # caller /\ relay_close(caller, code, t))
            => /\ last'.outcome = IF caller = Guest THEN "login_required" ELSE "unauthorized"
               /\ relay_sessions' = relay_sessions
               /\ relay_entries' = relay_entries]_vars

\* a logged-in caller who is not the owner was refused on an open session with entries
C7_Witness ==
    /\ last.op = "close" /\ last.outcome = "unauthorized"
    /\ \E s \in relay_sessions : ~s.is_closed /\ Count(relay_entries, s.id) >= 1

\* C8 as claimed: the owner's close of an already closed session leaves is_closed
\* and closed_at as they were.
C8_RecloseChangesNothing ==
    [][last'.op = "close" =>
       \A code \in CodeInputs, t \in 0..MaxTime :
         \A relay \in RelayByCode(relay_sessions, Upper(code)) :
            (relay.is_closed /\ relay_close(relay.owner_id, code, t))
            => relay_sessions' = relay_sessions]_vars

\* C8 amended: the owner's close of an already closed session is answered like a
\* first close, keeps is_closed true and every other column and entry as it was,
\* and overwrites closed_at with the time of this request.
C8_RecloseRestampsClosedAt ==
    [][last'.op = "close" =>
       \A code \in CodeInputs, t \in 0..MaxTime :
         \A relay \in RelayByCode(relay_sessions, Upper(code)) :
            (relay.is_closed /\ relay_close(relay.owner_id, code, t))
            => /\ last'.outcome = "closed_ok"
               /\ relay_sessions' =
                    (relay_sessions \ {relay}) \cup {[relay EXCEPT !.closed_at = t]}
               /\ relay_entries' = relay_entries]_vars

\* a closed session was closed again at a later time
C8_Witness ==
    /\ last.op = "close" /\ last.outcome = "closed_ok" /\ last.was_closed
    /\ \E s \in relay_sessions : s.is_closed /\ s.closed_at = now /\ now > 0

----------------------------------------------------------------------------
(* The stash store *)

NoCollection == 0               \* collection_id is None (NULL, JSON null, key absent)
MissingKey == "<missing>"       \* the JSON object has no such key

\* a variant that cuts without the marker
generate_stash_preview_Cut(text) == Take(text, 50)

\* generate_stash_preview(text, preview_length=50)
generate_stash_preview(text) ==
    IF Len(text) > 50 THEN Take(text, 50) \o <<".", ".", ".">> ELSE text

\* str(value) of a JSON string or null
Str(value) == IF value = None THEN <<"N", "o", "n", "e">> ELSE value

\* a variant that keeps the items without text
NormalizeChecklist_KeepsBlank(items) ==
    [i \in DOMAIN items |->
        [text |-> Strip(Str(items[i].text)), done |-> items[i].is_dict /\ items[i].done]]

\* the normalisation loop of Stash.set_checklist; an item is a dict with "text" and
\* "done", or a plain value whose str() is text
RECURSIVE NormalizeChecklist(_)
NormalizeChecklist(items) ==
    IF items = <<>> THEN <<>>
    ELSE LET item == Head(items)
             text == Strip(Str(item.text))
             done == IF item.is_dict THEN item.done ELSE FALSE
         IN  (IF text # <<>> THEN <<[text |-> text, done |-> done]>> ELSE <<>>)
             \o NormalizeChecklist(Tail(items))

\* Stash.set_checklist: json.dumps(normalized) if normalized else None; the column
\* is NULL or holds the JSON text of the normalized list
set_checklist(items) ==
    IF NormalizeChecklist(items) = <<>>
    THEN [null |-> TRUE, json |-> <<>>]
    ELSE [null |-> FALSE, json |-> NormalizeChecklist(items)]

\* Stash.__init__ as import_from_json calls it (checklist is a list, preview unset)
NewStash(id, user_id, title, body, checklist, collection_id) ==
    [id |-> id,
     user_id |-> user_id,
     title |-> IF title # None /\ Strip(title) # <<>> THEN Strip(title) ELSE None,
     body |-> body,
     checklist |-> set_checklist(checklist),
     preview |-> generate_stash_preview(body),
     collection_id |-> collection_id]

\* uuid4(): the n-th id minted; no two draws are equal and none equals a snapshot id
Uuid(n) == "uuid-" \o ToString(n)

\* a Python dict as a set of <<key, value>> pairs
MapPut(m, k, v) == {p \in m : p[1] # k} \cup {<<k, v>>}
MapHas(m, k) == \E p \in m : p[1] = k
MapGet(m, k) == (CHOOSE p \in m : p[1] = k)[2]

\* Query.first() on rows with an integer primary key
First(rows) == CHOOSE r \in rows : \A o \in rows : r.id <= o.id

----------------------------------------------------------------------------
(* import_from_json *)

Counts(c, s, t) == [collections |-> c, stashes |-> s, tags |-> t]

\* the integer primary key the store gives the next row of a table
NextId(rows) ==
    IF rows = {} THEN 1 ELSE 1 + (CHOOSE m \in {r.id : r \in rows} : \A r \in rows : r.id <= m)

\* rows that open transactions have flushed: their primary keys are taken
Flushed(table) ==
    UNION {pending[c].flushed[table] : c \in {x \in Connections : pending[x].active}}

\* the state of one run: the session's view of the tables (flushed rows included),
\* the two maps, the counters of results, and whether an exception was raised
StartOfImport ==
    [collections |-> collections, tags |-> tags, stashes |-> stashes,
     stash_tags |-> stash_tags, minted |-> minted,
     taken |-> [collections |-> Flushed("collections"), tags |-> Flushed("tags")],
     collection_map |-> {}, tag_map |-> {},
     created |-> Counts(0, 0, 0), skipped |-> Counts(0, 0, 0),
     failed |-> FALSE]

\* one pass of the loop over data.get('collections', [])
ImportCollection(w, user, col_data) ==
    IF w.failed THEN w
    ELSE IF col_data.name = MissingKey THEN [w EXCEPT !.failed = TRUE]
    ELSE LET existing == {c \in w.collections :
                            c.user_id = user /\ c.name = col_data.name}
             new_col == [id |-> NextId(w.collections \cup w.taken.collections),
                         user_id |-> user,
                         name |-> col_data.name,
                         description |-> col_data.description]
         IN  IF existing # {}
             THEN [w EXCEPT
                     !.collection_map = MapPut(@, col_data.id, First(existing).id),
                     !.skipped.collections = @ + 1]
             ELSE [w EXCEPT
                     !.collections = @ \cup {new_col},
                     !.collection_map = MapPut(@, col_data.id, new_col.id),
                     !.created.collections = @ + 1]

\* one pass of the loop over data.get('tags', [])
ImportTag(w, tag_data) ==
    IF w.failed THEN w
    ELSE IF tag_data.name = MissingKey THEN [w EXCEPT !.failed = TRUE]
    ELSE LET existing == {t \in w.tags : t.name = tag_data.name}
             new_tag == [id |-> NextId(w.tags \cup w.taken.tags), name |-> tag_data.name]
         IN  IF existing # {}
             THEN [w EXCEPT
                     !.tag_map = MapPut(@, tag_data.name, First(existing).id),
                     !.skipped.tags = @ + 1]
             ELSE [w EXCEPT
                     !.tags = @ \cup {new_tag},
                     !.tag_map = MapPut(@, tag_data.name, new_tag.id),
                     !.created.tags = @ + 1]

\* a variant that keeps the snapshot's id whoever owns it
StashIdFor_Keeps(existing_any, snapshot_id, fresh) == snapshot_id

\* stash_data['id'] if existing_any is None else str(uuid4())
StashIdFor(existing_any, snapshot_id, fresh) ==
    IF existing_any = {} THEN snapshot_id ELSE fresh

\* a variant that keeps the collection id of the snapshot
ResolveCollection_KeepsId(w, user, stash_data) == stash_data.collection_id

\* line 196 to 206: the collection the new stash is linked to
ResolveCollection(w, user, stash_data) ==
    IF stash_data.collection_id # NoCollection
    THEN IF MapHas(w.collection_map, stash_data.collection_id)
         THEN MapGet(w.collection_map, stash_data.collection_id)
         ELSE NoCollection
    ELSE IF stash_data.collection_name # ""
    THEN LET col == {c \in w.collections :
                        c.user_id = user /\ c.name = stash_data.collection_name}
         IN  IF col # {} THEN First(col).id ELSE NoCollection
    ELSE NoCollection

\* stash_data.get('body') or stash_data.get('text') or ""
BodyOf(stash_data) ==
    IF stash_data.body \notin {None, <<>>} THEN stash_data.body
    ELSE IF stash_data.text \notin {None, <<>>} THEN stash_data.text
    ELSE <<>>

\* line 231 to 235: the tags appended to new_stash.tags, in order: one link for
\* every name of the snapshot stash that the tag map knows
RECURSIVE TagLinks(_, _, _)
TagLinks(tag_map, stash_id, names) ==
    IF names = <<>> THEN <<>>
    ELSE (IF MapHas(tag_map, Head(names))
          THEN << <<stash_id, MapGet(tag_map, Head(names))>> >> ELSE <<>>)
         \o TagLinks(tag_map, stash_id, Tail(names))

\* a variant for a table without a key
ViolatesKey_Never(table, links) == FALSE

\* the primary key (stash_id, tag_id) of stash_tags refuses the rows of a flush
\* that repeat a link of the table or one another
ViolatesKey(table, links) ==
    \/ \E i \in DOMAIN links : BagIn(links[i], table)
    \/ \E i, j \in DOMAIN links : i < j /\ links[i] = links[j]

\* the flush inserts one row into stash_tags for every link appended
RECURSIVE InsertLinks(_, _)
InsertLinks(table, links) ==
    IF links = <<>> THEN table
    ELSE InsertLinks(table (+) SetToBag({Head(links)}), Tail(links))

\* one pass of the loop over data.get('stashes', [])
ImportStash(w, user, stash_data) ==
    IF w.failed THEN w
    ELSE IF stash_data.id = MissingKey THEN [w EXCEPT !.failed = TRUE]
    ELSE LET existing_same_user == {s \in w.stashes :
                                      s.user_id = user /\ s.id = stash_data.id}
             existing_any == {s \in w.stashes : s.id = stash_data.id}
             stash_id == StashIdFor(existing_any, stash_data.id, Uuid(w.minted + 1))
             checklist_items == IF stash_data.checklist.is_list
                                THEN stash_data.checklist.items ELSE <<>>
             links == TagLinks(w.tag_map, stash_id, stash_data.tags)
             new_stash == NewStash(stash_id, user, stash_data.title, BodyOf(stash_data),
                                   checklist_items, ResolveCollection(w, user, stash_data))
         IN  IF existing_same_user # {}
             THEN [w EXCEPT !.skipped.stashes = @ + 1]
             ELSE IF \/ \E s \in w.stashes : s.id = stash_id
                     \/ ViolatesKey(w.stash_tags, links)
             THEN [w EXCEPT !.failed = TRUE]      \* flush: primary key violated
             ELSE [w EXCEPT
                     !.stashes = @ \cup {new_stash},
                     !.minted = IF existing_any = {} THEN @ ELSE @ + 1,
                     !.stash_tags = InsertLinks(@, links),
                     !.created.stashes = @ + 1]

RECURSIVE ImportCollections(_, _, _)
ImportCollections(w, user, items) ==
    IF items = <<>> THEN w
    ELSE ImportCollections(ImportCollection(w, user, Head(items)), user, Tail(items))

RECURSIVE ImportTags(_, _)
ImportTags(w, items) ==
    IF items = <<>> THEN w ELSE ImportTags(ImportTag(w, Head(items)), Tail(items))

RECURSIVE ImportStashes(_, _, _)
ImportStashes(w, user, items) ==
    IF items = <<>> THEN w
    ELSE ImportStashes(ImportStash(w, user, Head(items)), user, Tail(items))

\* line 143 to 238: the three loops in order
RunImport(user, data) ==
    ImportStashes(ImportTags(ImportCollections(StartOfImport, user, data.collections),
                             data.tags),
                  user, data.stashes)

\* a variant that reports nothing as skipped
ImportSucceeded_NoSkips(w) ==
    [success |-> TRUE, error |-> "", created |-> w.created, skipped |-> Counts(0, 0, 0)]

\* the dictionaries import_from_json returns
ImportSucceeded(w) ==
    [success |-> TRUE, error |-> "", created |-> w.created, skipped |-> w.skipped]

ImportFailed(error) ==
    [success |-> FALSE, error |-> error, created |-> Counts(0, 0, 0)]

\* a variant that keeps what the loops flushed before the exception
Rollback_KeepsFlushed(w) == w

\* db.session.rollback(): the rows flushed since the request began are discarded
Rollback(w) == StartOfImport

\* import_from_json(user, json_data); json_data is an upload whose text does not
\* parse, or parses to a list, or parses to the object data
import_from_json(user, json_data) ==
    /\ IF json_data.kind = "invalid"
       THEN /\ result' = [user |-> user, doc |-> json_data.name,
                          returned |-> ImportFailed("Invalid JSON")]
            /\ UNCHANGED <<collections, tags, stashes, stash_tags, minted>>
       ELSE LET w == IF json_data.kind = "list"
                     THEN \* data.get raises AttributeError
                          [StartOfImport EXCEPT !.failed = TRUE]
                     ELSE RunImport(user, json_data.data)
                end == IF w.failed THEN Rollback(w) ELSE w    \* else db.session.commit()
            IN  /\ w.minted <= MaxUuid
                /\ collections' = end.collections
                /\ tags' = end.tags
                /\ stashes' = end.stashes
                /\ stash_tags' = end.stash_tags
                /\ minted' = IF w.failed THEN minted ELSE w.minted
                /\ result' = [user |-> user, doc |-> json_data.name,
                              returned |-> IF w.failed
                                           THEN ImportFailed("Import failed")
                                           ELSE ImportSucceeded(w)]
    /\ UNCHANGED pending
    /\ UNCHANGED relayVars

(* import_from_json by requests served at the same time, each in a transaction of
   its own connection: the loops read the store and flush, the commit comes later *)

\* a variant for a table without the constraint
CollectionNamesFree_Dropped(cols) == TRUE

\* UniqueConstraint('user_id', 'name', name='uq_user_collection_name')
CollectionNamesFree(cols) ==
    \A a, b \in cols : (a.user_id = b.user_id /\ a.name = b.name) => a = b

\* the keys and unique constraints of the four tables
StoreAccepts(cols, tgs, sts, links) ==
    /\ CollectionNamesFree(cols)
    /\ \A a, b \in cols : a.id = b.id => a = b
    /\ \A a, b \in tgs : (a.id = b.id \/ a.name = b.name) => a = b
    /\ \A a, b \in sts : a.id = b.id => a = b
    /\ \A l \in BagToSet(links) : CopiesIn(l, links) = 1

\* line 127 to 238 on connection c: parse, run the loops, leave the transaction open
import_begin(c, user, json_data) ==
    /\ ~pending[c].active
    /\ IF json_data.kind = "invalid"
       THEN /\ result' = [user |-> user, doc |-> json_data.name,
                          returned |-> ImportFailed("Invalid JSON")]
            /\ UNCHANGED <<minted, pending>>
       ELSE LET w == IF json_data.kind = "list"
                     THEN [StartOfImport EXCEPT !.failed = TRUE]
                     ELSE RunImport(user, json_data.data)
            IN  /\ w.minted <= MaxUuid
                /\ IF w.failed
                   THEN /\ result' = [user |-> user, doc |-> json_data.name,
                                      returned |-> ImportFailed("Import failed")]
                        /\ UNCHANGED <<minted, pending>>
                   ELSE /\ pending' = [pending EXCEPT ![c] =
                              [active |-> TRUE, user |-> user, doc |-> json_data.name,
                               returned |-> ImportSucceeded(w),
                               flushed |-> [collections |-> w.collections \ collections,
                                            tags |-> w.tags \ tags,
                                            stashes |-> w.stashes \ stashes,
                                            stash_tags |-> w.stash_tags (-) stash_tags]]]
                        /\ minted' = w.minted
                        /\ UNCHANGED result
    /\ UNCHANGED <<collections, tags, stashes, stash_tags>>
    /\ UNCHANGED relayVars

\* line 239 to 248 on connection c: db.session.commit(), or the rollback when the
\* store refuses the rows
import_commit(c) ==
    /\ pending[c].active
    /\ LET p == pending[c]
           cols == collections \cup p.flushed.collections
           tgs == tags \cup p.flushed.tags
           sts == stashes \cup p.flushed.stashes
           links == stash_tags (+) p.flushed.stash_tags
       IN  IF StoreAccepts(cols, tgs, sts, links)
           THEN /\ collections' = cols
                /\ tags' = tgs
                /\ stashes' = sts
                /\ stash_tags' = links
                /\ result' = [user |-> p.user, doc |-> p.doc, returned |-> p.returned]
           ELSE /\ UNCHANGED <<collections, tags, stashes, stash_tags>>
                /\ result' = [user |-> p.user, doc |-> p.doc,
                              returned |-> ImportFailed("Import failed")]
    /\ pending' = [pending EXCEPT ![c] = NoPending]
    /\ UNCHANGED minted
    /\ UNCHANGED relayVars

(* Snapshots offered for import *)

NoChecklist == [is_list |-> FALSE, items |-> <<>>]

SampleChecklist ==
    [is_list |-> TRUE,
     items |-> << [is_dict |-> TRUE, text |-> <<" ">>, done |-> TRUE],
                  [is_dict |-> TRUE, text |-> <<" ", "o", "k">>, done |-> TRUE],
                  [is_dict |-> FALSE, text |-> <<"a">>, done |-> FALSE] >>]

StashItem(id, title, body, text, checklist, collection_id, collection_name, tag_names) ==
    [id |-> id, title |-> title, body |-> body, text |-> text, checklist |-> checklist,
     collection_id |-> collection_id, collection_name |-> collection_name,
     tags |-> tag_names]

CollectionItem(id, name) == [id |-> id, name |-> name, description |-> "d"]

Snapshot(cols, tgs, sts) == [collections |-> cols, tags |-> tgs, stashes |-> sts]

EmptySnapshot == Snapshot(<<>>, <<>>, <<>>)

Upload(name, kind, data) == [name |-> name, kind |-> kind, data |-> data]

Uploads ==
    { Upload("garbage", "invalid", EmptySnapshot),
      Upload("list", "list", EmptySnapshot),
      Upload("full", "object",
             Snapshot(<<CollectionItem(7, "work")>>, <<[name |-> "t"]>>,
                      <<StashItem("X", <<" ", "T", " ">>, <<"h", "i">>, None,
                                  SampleChecklist, 7, "work", <<"t", "u">>)>>)),
      Upload("pair", "object",
             Snapshot(<<>>, <<>>,
                      <<StashItem("X", None, None, <<"l">>, NoChecklist,
                                  NoCollection, "work", <<"t">>),
                        StashItem("Y", <<>>, Repeat("b", 51), None, NoChecklist,
                                  9, "work", <<>>)>>)),
      Upload("twice", "object",
             Snapshot(<<CollectionItem(7, "work"), CollectionItem(8, "work")>>,
                      <<[name |-> "t"], [name |-> "T"], [name |-> "t"]>>,
                      <<StashItem("Y", None, <<>>, None, NoChecklist,
                                  8, "", <<"T">>),
                        StashItem("Y", None, <<"y">>, None, NoChecklist,
                                  NoCollection, "", <<>>)>>)),
      Upload("repeat", "object",
             Snapshot(<<>>, <<[name |-> "t"]>>,
                      <<StashItem("W", None, <<"w">>, None, NoChecklist,
                                  NoCollection, "", <<"t", "t">>)>>)),
      Upload("foreign", "object",
             Snapshot(<<>>, <<>>,
                      <<StashItem("V", None, <<"v">>, None, NoChecklist,
                                  1, "", <<>>)>>)),
      Upload("broken", "object",
             Snapshot(<<CollectionItem(5, "home")>>, <<[name |-> "v"]>>,
                      <<StashItem("Z", None, <<"z">>, None, NoChecklist,
                                  5, "", <<"v">>),
                        StashItem(MissingKey, None, <<"q">>, None, NoChecklist,
                                  NoCollection, "", <<>>)>>)) }

Import == \E user \in Users, json_data \in Uploads : import_from_json(user, json_data)

NextImport == Import

SpecImport == Init /\ [][NextImport]_vars

ConcurrentUploads == {u \in Uploads : u.name \in {"garbage", "full", "twice", "broken"}}

ImportBegin ==
    \E c \in Connections, user \in Users, json_data \in ConcurrentUploads :
        import_begin(c, user, json_data)

ImportCommit == \E c \in Connections : import_commit(c)

NextImportConcurrent == ImportBegin \/ ImportCommit

SpecImportConcurrent == Init /\ [][NextImportConcurrent]_vars

----------------------------------------------------------------------------
(* The stash routes *)

\* str.lower() and str.strip() on the tag names the requests carry
LowerName(name) ==
    CASE name = "T" -> "t"
      [] name = " T" -> " t"
      [] OTHER -> name

StripName(name) ==
    CASE name = " T" -> "T"
      [] name = " t" -> "t"
      [] name = " " -> ""
      [] OTHER -> name

\* json.loads of a checklist column or form field: the dicts of the stored list
RECURSIVE LoadItems(_)
LoadItems(json) ==
    IF json = <<>> THEN <<>>
    ELSE <<[is_dict |-> TRUE, text |-> Head(json).text, done |-> Head(json).done]>>
         \o LoadItems(Tail(json))

\* parse_checklist(raw): raw is the JSON text of a form field
parse_checklist(raw) ==
    IF ~raw.is_list THEN <<>> ELSE LoadItems(NormalizeChecklist(raw.items))

\* Stash.get_checklist on a checklist column
get_checklist(column) ==
    IF column.null THEN <<>> ELSE NormalizeChecklist(LoadItems(column.json))

\* [tag.strip().lower() for tag in form.tags.data.split(',') if tag.strip()]
RECURSIVE FormTags(_)
FormTags(pieces) ==
    IF pieces = <<>> THEN <<>>
    ELSE (IF StripName(Head(pieces)) # ""
          THEN <<LowerName(StripName(Head(pieces)))>> ELSE <<>>)
         \o FormTags(Tail(pieces))

\* Stash.add_tag(tag_input) for a string: st holds the tags table and the list
\* stash.tags of the stash in memory
add_tag(st, tag_input) ==
    LET tag_name == LowerName(tag_input)
        found == {t \in st.tags : t.name = tag_name}
        tag == IF found # {} THEN First(found)
               ELSE [id |-> NextId(st.tags), name |-> tag_name]
    IN  [tags |-> st.tags \cup {tag},
         list |-> IF \E i \in DOMAIN st.list : st.list[i] = tag.id
                  THEN st.list ELSE Append(st.list, tag.id)]

RECURSIVE AddTags(_, _)
AddTags(st, names) ==
    IF names = <<>> THEN st ELSE AddTags(add_tag(st, Head(names)), Tail(names))

\* the rows of stash_tags for the list stash.tags
RECURSIVE ListLinks(_, _)
ListLinks(stash_id, list) ==
    IF list = <<>> THEN <<>>
    ELSE << <<stash_id, Head(list)>> >> \o ListLinks(stash_id, Tail(list))

\* stash_tags without the rows of one stash (stash.tags.clear())
WithoutLinksOf(table, stash_id) ==
    [l \in {k \in BagToSet(table) : k[1] # stash_id} |-> CopiesIn(l, table)]

\* the choices of the collection field: "-- No Collection --" and the user's own
CollectionChoices(user) == {-1} \cup {c.id : c \in {r \in collections : r.user_id = user}}

\* form.validate_on_submit() of StashForm and EditStashForm
ValidStashForm(user, form) ==
    /\ Len(form.title) <= 200
    /\ Strip(form.body) # <<>>
    /\ form.collection \in CollectionChoices(user)

\* POST /stash
stash(caller, form) ==
    /\ caller # Guest
    /\ IF ~ValidStashForm(caller, form)
       THEN UNCHANGED <<tags, stashes, stash_tags, minted>>
       ELSE LET id == Uuid(minted + 1)
                new_stash == NewStash(id, caller, form.title, form.body,
                                      parse_checklist(form.checklist),
                                      IF form.collection # -1 THEN form.collection
                                      ELSE NoCollection)
                st == AddTags([tags |-> tags, list |-> <<>>], FormTags(form.tags))
            IN  /\ minted < MaxUuid
                /\ minted' = minted + 1
                /\ stashes' = stashes \cup {new_stash}
                /\ tags' = st.tags
                /\ stash_tags' = InsertLinks(stash_tags, ListLinks(id, st.list))
    /\ UNCHANGED <<collections, result, pending>>
    /\ UNCHANGED relayVars

\* POST /stashes/<stash_id>/edit
edit_stash(caller, stash_id, form) ==
    /\ caller # Guest
    /\ \E row \in stashes :
        /\ row.id = stash_id
        /\ row.user_id = caller
        /\ IF ~ValidStashForm(caller, form)
           THEN UNCHANGED <<tags, stashes, stash_tags>>
           ELSE LET edited == [row EXCEPT
                                 !.title = IF form.title # <<>> THEN Strip(form.title)
                                           ELSE None,
                                 !.body = form.body,
                                 !.preview = generate_stash_preview(form.body),
                                 !.checklist = set_checklist(parse_checklist(form.checklist)),
                                 !.collection_id = IF form.collection # -1
                                                   THEN form.collection ELSE NoCollection]
                    st == AddTags([tags |-> tags, list |-> <<>>], FormTags(form.tags))
                IN  /\ stashes' = (stashes \ {row}) \cup {edited}
                    /\ tags' = st.tags
                    /\ stash_tags' = InsertLinks(WithoutLinksOf(stash_tags, stash_id),
                                                 ListLinks(stash_id, st.list))
    /\ UNCHANGED <<collections, minted, result, pending>>
    /\ UNCHANGED relayVars

\* POST /share/import
import_shared_stash(caller, data) ==
    /\ caller # Guest
    /\ IF Strip(data.body) = <<>>
       THEN UNCHANGED <<tags, stashes, stash_tags, minted>>
       ELSE LET id == Uuid(minted + 1)
                title == Strip(data.title)
                new_stash == NewStash(id, caller, IF title # <<>> THEN title ELSE None,
                                      Strip(data.body),
                                      IF data.checklist.is_list
                                      THEN data.checklist.items ELSE <<>>,
                                      NoCollection)
                st == AddTags([tags |-> tags, list |-> <<>>], data.tags)
            IN  /\ minted < MaxUuid
                /\ minted' = minted + 1
                /\ stashes' = stashes \cup {new_stash}
                /\ tags' = st.tags
                /\ stash_tags' = InsertLinks(stash_tags, ListLinks(id, st.list))
    /\ UNCHANGED <<collections, result, pending>>
    /\ UNCHANGED relayVars

\* the rows of a query in the order the store returns them
RECURSIVE ById(_)
ById(rows) == IF rows = {} THEN <<>> ELSE <<First(rows)>> \o ById(rows \ {First(rows)})

RECURSIVE InStoreOrder(_)
InStoreOrder(rows) ==
    IF rows = {} THEN <<>>
    ELSE LET r == CHOOSE x \in rows : TRUE IN <<r>> \o InStoreOrder(rows \ {r})

\* stash.tags: the Tag rows stash_tags links to the stash
TagsOf(stash_id) == {t \in tags : BagIn(<<stash_id, t.id>>, stash_tags)}

RECURSIVE Names(_)
Names(rows) == IF rows = <<>> THEN <<>> ELSE <<Head(rows).name>> \o Names(Tail(rows))

\* the entry of export_data['stashes'] for one stash
ExportStash(row) ==
    LET collection == {c \in collections : c.id = row.collection_id}
    IN  StashItem(row.id, row.title, row.body, None,
                  [is_list |-> TRUE, items |-> LoadItems(get_checklist(row.checklist))],
                  row.collection_id,
                  IF collection # {} THEN First(collection).name ELSE "",
                  Names(ById(TagsOf(row.id))))

RECURSIVE ExportStashes(_)
ExportStashes(rows) ==
    IF rows = <<>> THEN <<>> ELSE <<ExportStash(Head(rows))>> \o ExportStashes(Tail(rows))

RECURSIVE ExportCollections(_)
ExportCollections(rows) ==
    IF rows = <<>> THEN <<>>
    ELSE <<[id |-> Head(rows).id, name |-> Head(rows).name,
            description |-> Head(rows).description]>> \o ExportCollections(Tail(rows))

RECURSIVE ExportTags(_)
ExportTags(rows) ==
    IF rows = <<>> THEN <<>>
    ELSE <<[name |-> Head(rows).name]>> \o ExportTags(Tail(rows))

\* export_user_data(user), as json.loads reads what export_to_json wrote
export_user_data(user) ==
    LET own == {r \in stashes : r.user_id = user}
    IN  Snapshot(ExportCollections(ById({c \in collections : c.user_id = user})),
                 ExportTags(ById(UNION {TagsOf(r.id) : r \in own})),
                 ExportStashes(InStoreOrder(own)))

\* GET /export by one user, then POST /import of the downloaded file by another
export_import(exporter, importer) ==
    import_from_json(importer, Upload("export", "object", export_user_data(exporter)))

(* Requests to the stash routes *)

StashForms ==
    { [title |-> <<" ", "T">>, body |-> <<"h", "i">>, checklist |-> SampleChecklist,
       collection |-> -1, tags |-> <<" T", "t", " ">>],
      [title |-> <<" ">>, body |-> <<"e">>, checklist |-> NoChecklist,
       collection |-> 1, tags |-> <<>>],
      [title |-> <<>>, body |-> <<" ">>, checklist |-> NoChecklist,
       collection |-> -1, tags |-> <<"t">>] }

SharedPayloads ==
    { [title |-> <<"S", " ">>, body |-> <<" ", "s">>, checklist |-> SampleChecklist,
       tags |-> <<"T", "t">>],
      [title |-> <<>>, body |-> <<>>, checklist |-> NoChecklist, tags |-> <<>>] }

StoreUploads == {u \in Uploads : u.name \in {"full", "twice", "repeat"}}

CreateStash == \E form \in StashForms : stash(1, form)

EditStash == \E row \in stashes, form \in StashForms : edit_stash(1, row.id, form)

ImportShared == \E data \in SharedPayloads : import_shared_stash(1, data)

ImportUpload == \E json_data \in StoreUploads : import_from_json(1, json_data)

ExportImport == \E exporter \in Users, importer \in Users : export_import(exporter, importer)

NextStore == CreateStash \/ EditStash \/ ImportShared \/ ImportUpload \/ ExportImport

SpecStore == Init /\ [][NextStore]_vars

----------------------------------------------------------------------------
(* Starting relays *)

\* POST /relay/start/<stash_id>
relay_start_from_stash(caller, stash_id, code) ==
    /\ IF caller = Guest
       THEN /\ last' = Flash("start_from_stash", "login_required")
            /\ UNCHANGED relay_sessions
       ELSE LET found == {r \in stashes : r.id = stash_id /\ r.user_id = caller}
            IN  IF found = {}
                THEN /\ last' = Flash("start_from_stash", "not_found")
                     /\ UNCHANGED relay_sessions
                ELSE \E row \in found :
                     LET relay == [id |-> Cardinality(relay_sessions) + 1,
                                   code |-> code,
                                   owner_id |-> caller,
                                   title |-> IF row.title \in {None, <<>>}
                                             THEN DefaultTitle ELSE row.title,
                                   prompt |-> row.body,
                                   is_closed |-> FALSE,
                                   max_entries |-> 8,
                                   closed_at |-> NoTime]
                     IN  /\ ~CodeTaken(relay_sessions, code)
                         /\ relay_sessions' = relay_sessions \cup {relay}
                         /\ last' = Flash("start_from_stash", "started")
    /\ UNCHANGED <<relay_entries, now, pc, local>>
    /\ UNCHANGED storeVars

\* what the max_entries field of the start form may hold
CapacityInputs ==
    {Absent, NotANumber, Number(-1), Number(20), Number(21), Number(50)}
        \cup {Number(n) : n \in 0..MaxCapacityAsked}

StartWithCapacity ==
    \E raw \in CapacityInputs, code \in Codes : relay_home(1, <<>>, <<>>, raw, code)

StartFromStash ==
    \E caller \in Callers, stash_id \in {Uuid(1), "X"}, code \in Codes :
        relay_start_from_stash(caller, stash_id, code)

NextStart == StartWithCapacity \/ StartFromStash \/ CreateStash

SpecStart == Init /\ [][NextStart]_vars

----------------------------------------------------------------------------
(* Checklists *)

\* POST /stashes/<stash_id>/checklist; payload is the "checklist" of the JSON body
update_checklist(caller, stash_id, payload) ==
    /\ caller # Guest
    /\ \E row \in stashes :
        /\ row.id = stash_id
        /\ row.user_id = caller
        /\ IF ~payload.is_list
           THEN UNCHANGED stashes
           ELSE stashes' = (stashes \ {row}) \cup
                    {[row EXCEPT !.checklist = set_checklist(payload.items)]}
    /\ UNCHANGED <<collections, tags, stash_tags, minted, result, pending>>
    /\ UNCHANGED relayVars

\* items a request may list: dicts and plain values, with and without text
ItemInputs ==
    { [is_dict |-> TRUE, text |-> <<" ">>, done |-> TRUE],
      [is_dict |-> TRUE, text |-> <<" ", "o", "k">>, done |-> FALSE],
      [is_dict |-> TRUE, text |-> <<"b", " ">>, done |-> TRUE],
      [is_dict |-> TRUE, text |-> None, done |-> FALSE],
      [is_dict |-> FALSE, text |-> <<"a">>, done |-> TRUE] }

ChecklistInputs ==
    {NoChecklist} \cup
    {[is_list |-> TRUE, items |-> items] :
        items \in UNION {[1..n -> ItemInputs] : n \in 0..MaxItems}}

UpdateChecklist ==
    \E row \in stashes, payload \in ChecklistInputs : update_checklist(1, row.id, payload)

NextChecklist == CreateStash \/ UpdateChecklist

SpecChecklist == Init /\ [][NextChecklist]_vars

----------------------------------------------------------------------------
(* Bodies around the preview length *)

PreviewBodies == {<<"h", "i">>, Repeat("b", 50), Repeat("b", 51)}

PreviewForms ==
    {[title |-> <<>>, body |-> body, checklist |-> NoChecklist, collection |-> -1,
      tags |-> <<>>] : body \in PreviewBodies}

PreviewUploads == {u \in Uploads : u.name \in {"full", "pair"}}

CreateWithBody == \E form \in PreviewForms : stash(1, form)

EditBody == \E row \in stashes, form \in PreviewForms : edit_stash(1, row.id, form)

ShareBody ==
    \E body \in PreviewBodies :
        import_shared_stash(1, [title |-> <<>>, body |-> body, checklist |-> NoChecklist,
                                tags |-> <<>>])

ImportBody == \E user \in Users, json_data \in PreviewUploads : import_from_json(user, json_data)

NextPreview == CreateWithBody \/ EditBody \/ ShareBody \/ ImportBody

SpecPreview == Init /\ [][NextPreview]_vars

----------------------------------------------------------------------------
(* Export next to imports in flight *)

\* a variant that takes the tag links out of the store as it reads them
export_data_Consuming(caller) ==
    /\ caller # Guest
    /\ result' = [user |-> caller, doc |-> "GET /export",
                  returned |-> export_user_data(caller)]
    /\ stash_tags' = EmptyBag
    /\ UNCHANGED <<collections, tags, stashes, minted, pending>>
    /\ UNCHANGED relayVars

\* GET /export: export_to_json(g.user) sent as a file; login_required turns a
\* guest away
export_data(caller) ==
    /\ caller # Guest
    /\ result' = [user |-> caller, doc |-> "GET /export",
                  returned |-> export_user_data(caller)]
    /\ UNCHANGED <<collections, tags, stashes, stash_tags, minted, pending>>
    /\ UNCHANGED relayVars

ExportUploads == {u \in Uploads : u.name \in {"full", "pair"}}

ExportData == \E caller \in Users : export_data(caller)

ImportBeginNextToExport ==
    \E c \in Connections, user \in Users, json_data \in ExportUploads :
        import_begin(c, user, json_data)

NextExport == ExportData \/ ImportBeginNextToExport \/ ImportCommit \/ CreateStash

SpecExport == Init /\ [][NextExport]_vars

----------------------------------------------------------------------------
(* Deleting and moving stashes *)

\* the elements of a list
Range(list) == {list[i] : i \in DOMAIN list}

\* stash_tags without the rows of the stashes deleted: the session deletes the rows
\* of the secondary table with their stash
WithoutLinksOfAll(table, stash_ids) ==
    [l \in {k \in BagToSet(table) : k[1] \notin stash_ids} |-> CopiesIn(l, table)]

\* POST /stashes/<stash_id>/delete
delete_stash(caller, stash_id) ==
    /\ caller # Guest
    /\ LET found == {s \in stashes : s.id = stash_id /\ s.user_id = caller}
       IN  /\ stashes' = stashes \ found
           /\ stash_tags' = WithoutLinksOfAll(stash_tags, {s.id : s \in found})
    /\ UNCHANGED <<collections, tags, minted, result, pending>>
    /\ UNCHANGED relayVars

\* POST /tags/<tag_id>/delete
delete_tag(caller, tag_id) ==
    /\ caller # Guest
    /\ LET tag == {t \in tags : t.id = tag_id}
           user_stashes == {s \in stashes :
                              s.user_id = caller /\ BagIn(<<s.id, tag_id>>, stash_tags)}
           remaining == [l \in {k \in BagToSet(stash_tags) :
                                  ~(k[2] = tag_id /\ k[1] \in {s.id : s \in user_stashes})}
                          |-> CopiesIn(l, stash_tags)]
       IN  IF tag = {} \/ user_stashes = {}
           THEN UNCHANGED <<tags, stash_tags>>
           ELSE /\ stash_tags' = remaining
                /\ tags' = IF \A l \in DOMAIN remaining : l[2] # tag_id
                           THEN tags \ tag ELSE tags
    /\ UNCHANGED <<collections, stashes, minted, result, pending>>
    /\ UNCHANGED relayVars

\* a variant that deletes every stash listed, whoever owns it
OwnedListed_Any(caller, stash_ids) == {s \in stashes : s.id \in Range(stash_ids)}

\* Stash.query.filter(Stash.id.in_(stash_ids), Stash.user_id == g.user.id).all()
OwnedListed(caller, stash_ids) ==
    {s \in stashes : s.id \in Range(stash_ids) /\ s.user_id = caller}

\* POST /stash/bulk/delete with the JSON body {"stash_ids": stash_ids}
bulk_delete(caller, stash_ids) ==
    /\ caller # Guest
    /\ IF stash_ids = <<>>
       THEN /\ result' = [user |-> caller, doc |-> "POST /stash/bulk/delete",
                          returned |-> [success |-> FALSE, status |-> 400]]
            /\ UNCHANGED <<stashes, stash_tags>>
       ELSE LET stashes_to_delete == OwnedListed(caller, stash_ids)
            IN  /\ stashes' = stashes \ stashes_to_delete
                /\ stash_tags' = WithoutLinksOfAll(stash_tags,
                                                   {s.id : s \in stashes_to_delete})
                /\ result' = [user |-> caller, doc |-> "POST /stash/bulk/delete",
                              returned |-> [success |-> TRUE, status |-> 200,
                                            deleted |-> Cardinality(stashes_to_delete)]]
    /\ UNCHANGED <<collections, tags, minted, pending>>
    /\ UNCHANGED relayVars

\* a variant that takes any collection for the target
TargetRefused_Never(caller, collection_id) == FALSE

\* line 1083 to 1091: a collection_id that is not falsy must be of a collection of
\* the caller
TargetRefused(caller, collection_id) ==
    /\ collection_id # NoCollection
    /\ ~\E c \in collections : c.id = collection_id /\ c.user_id = caller

\* POST /stash/bulk/move with the JSON body {"stash_ids": ..., "collection_id": ...};
\* a collection_id that is null, absent or 0 names no collection and is stored as given
bulk_move(caller, stash_ids, collection_id) ==
    /\ caller # Guest
    /\ IF stash_ids = <<>>
       THEN /\ result' = [user |-> caller, doc |-> "POST /stash/bulk/move",
                          returned |-> [success |-> FALSE, status |-> 400]]
            /\ UNCHANGED stashes
       ELSE IF TargetRefused(caller, collection_id)
       THEN /\ result' = [user |-> caller, doc |-> "POST /stash/bulk/move",
                          returned |-> [success |-> FALSE, status |-> 403]]
            /\ UNCHANGED stashes
       ELSE LET stashes_to_move == OwnedListed(caller, stash_ids)
            IN  /\ stashes' = (stashes \ stashes_to_move) \cup
                        {[s EXCEPT !.collection_id = collection_id] : s \in stashes_to_move}
                /\ result' = [user |-> caller, doc |-> "POST /stash/bulk/move",
                              returned |-> [success |-> TRUE, status |-> 200,
                                            moved |-> Cardinality(stashes_to_move)]]
    /\ UNCHANGED <<collections, tags, stash_tags, minted, pending>>
    /\ UNCHANGED relayVars

(* Requests that delete and move *)

ListedIds == {Uuid(1), Uuid(2), "X"}

\* lists of ids a request may carry: none, one, an id twice, ids of several owners,
\* an id of no stash
IdLists ==
    {<<>>, <<Uuid(1)>>, <<"X">>, <<Uuid(1), Uuid(1)>>, <<Uuid(1), "X">>,
     <<Uuid(2), "X", Uuid(1)>>, <<"nope">>}

TargetInputs == {NoCollection, 1, 2, 3}

BulkUploads == {u \in Uploads : u.name = "full"}

ImportForBulk == \E user \in Users, json_data \in BulkUploads : import_from_json(user, json_data)

DeleteStash == \E caller \in Users, stash_id \in ListedIds : delete_stash(caller, stash_id)

DeleteTag == \E caller \in Users, tag_id \in 1..3 : delete_tag(caller, tag_id)

BulkDelete == \E caller \in Users, stash_ids \in IdLists : bulk_delete(caller, stash_ids)

BulkMove ==
    \E caller \in Users, stash_ids \in IdLists, collection_id \in TargetInputs :
        bulk_move(caller, stash_ids, collection_id)

NextBulk ==
    CreateStash \/ EditStash \/ ImportForBulk \/ DeleteStash \/ DeleteTag \/ BulkDelete
        \/ BulkMove

SpecBulk == Init /\ [][NextBulk]_vars

\* the bulk requests alone, on stashes of both users
NextBulkOnly == CreateStash \/ ImportForBulk \/ BulkDelete \/ BulkMove

SpecBulkOnly == Init /\ [][NextBulkOnly]_vars

----------------------------------------------------------------------------
(* Properties of the import *)

StashIds(rows) == {s.id : s \in rows}

LinksOf(links, stash_id) ==
    [l \in {k \in BagToSet(links) : k[1] = stash_id} |-> CopiesIn(l, links)]

\* the ids of the snapshot that belong to a user other than the importing one
CollidingIds(user, data) ==
    {data.stashes[i].id : i \in DOMAIN data.stashes}
        \cap {s.id : s \in {r \in stashes : r.user_id # user}}

\* C9: importing the same snapshot into the same account again, right after an
\* import of it that succeeded, creates no stash and reports every stash of the
\* snapshot as skipped, whatever other users own
C9_ReimportCreatesNothing ==
    [][\A user \in Users, json_data \in Uploads :
         (/\ result.user = user
          /\ result.doc = json_data.name
          /\ result.returned.success
          /\ import_from_json(user, json_data))
         => /\ result'.returned.success
            /\ result'.returned.created.stashes = 0
            /\ result'.returned.skipped.stashes = Len(json_data.data.stashes)
            /\ stashes' = stashes]_vars

\* C10: an import by a user of a snapshot holding an id that another user owns
\* succeeds, creates a stash of the importing user under an id that is neither the
\* snapshot's nor one in use, and leaves the other user's row and its tag links as
\* they were
C10_CollisionMintsNewId ==
    [][\A user \in Users, json_data \in Uploads :
         (/\ json_data.kind = "object"
          /\ CollidingIds(user, json_data.data) # {}
          /\ import_from_json(user, json_data))
         => /\ result'.returned.success
            /\ \A id \in CollidingIds(user, json_data.data) :
                 /\ \E new \in stashes' \ stashes :
                      /\ new.user_id = user
                      /\ new.id # id
                      /\ new.id \notin StashIds(stashes)
                 /\ \A row \in stashes : row.id = id => row \in stashes'
                 /\ \A row \in stashes' : row.id = id => row \in stashes
                 /\ LinksOf(stash_tags', id) = LinksOf(stash_tags, id)]_vars

C10_Witness ==
    /\ result.returned.success
    /\ result.doc = "full"
    /\ \E mine \in stashes, theirs \in stashes :
         /\ theirs.id = "X"
         /\ theirs.user_id # result.user
         /\ DOMAIN LinksOf(stash_tags, "X") # {}
         /\ mine.id = Uuid(1)
         /\ mine.user_id = result.user

\* C11: an import that raises after the JSON was parsed (an item without 'name' or
\* 'id', a top level that is no object, a violated store constraint) answers
\* success = false and leaves collections, tags, stashes and stash-tag links
\* exactly as they were before the call.
C11_FailureRollsBack ==
    [][\A user \in Users, json_data \in Uploads :
         (/\ json_data.kind # "invalid"
          /\ import_from_json(user, json_data)
          /\ (json_data.kind = "list" \/ RunImport(user, json_data.data).failed))
         => /\ ~result'.returned.success
            /\ <<collections, tags, stashes, stash_tags>>' =
                    <<collections, tags, stashes, stash_tags>>]_vars

\* the import of "broken" failed after it had flushed a collection, a tag and a
\* stash, on a store that already held rows
C11_Witness ==
    /\ result.doc = "broken"
    /\ ~result.returned.success
    /\ result.returned.error = "Import failed"
    /\ stashes # {}
    /\ \A c \in collections : c.name # "home"
    /\ \A s \in stashes : s.id # "Z"

\* what a round trip is to reproduce of a stash
Content(row) ==
    [title |-> row.title, body |-> row.body, checklist |-> get_checklist(row.checklist),
     tag_names |-> {t.name : t \in {x \in tags' : BagIn(<<row.id, x.id>>, stash_tags')}}]

ContentBag(rows) ==
    [c \in {Content(r) : r \in rows} |-> Cardinality({r \in rows : Content(r) = c})]

OwnsNothing(user) ==
    /\ \A r \in stashes : r.user_id # user
    /\ \A c \in collections : c.user_id # user

\* C12: the import by an account that owns no stash and no collection of the
\* snapshot another account exported gives the importing account stashes with the
\* same multiset of (title, body, checklist, set of tag names) as the exporter's.
C12_RoundTrip ==
    [][\A exporter \in Users, importer \in Users :
         (OwnsNothing(importer) /\ export_import(exporter, importer))
         => ContentBag({r \in stashes' : r.user_id = importer})
              = ContentBag({r \in stashes' : r.user_id = exporter})]_vars

\* C13: no user owns two collections of one name, whatever imports ran, one after
\* another or at the same time, and an import that succeeded counted every
\* collection of its snapshot once, as created or as skipped.
C13_CollectionNamesUnique ==
    /\ \A a, b \in collections : (a.user_id = b.user_id /\ a.name = b.name) => a = b
    /\ result.returned.success =>
         \A u \in Uploads :
            u.name = result.doc =>
              result.returned.created.collections + result.returned.skipped.collections
                = Len(u.data.collections)

\* two imports of one user both flushed a collection "work"; the one that
\* committed second was refused
C13_Witness ==
    /\ result.doc \in {"full", "twice"}
    /\ ~result.returned.success
    /\ \E c \in collections : c.user_id = result.user /\ c.name = "work"

\* C14: after any sequence of stash creations, stash edits, imports of shared
\* stashes and imports of snapshots, every Tag's name is lower-cased and no two
\* Tags have the same name.
C14_TagNamesLowerUnique ==
    /\ \A t \in tags : LowerName(t.name) = t.name
    /\ \A a, b \in tags : a.name = b.name => a = b

\* C15: no stash is linked to the same Tag twice, after any sequence of stash
\* creations and edits (add_tag), imports of shared stashes and imports of
\* snapshots, a snapshot stash whose 'tags' repeats a name included.
C15_NoTagTwice ==
    \A l \in BagToSet(stash_tags) : CopiesIn(l, stash_tags) = 1

\* the snapshot whose stash names tag "t" twice was imported and refused, while
\* a stash created with the tags " T", "t" holds the tag once
C15_Witness ==
    /\ result.doc = "repeat"
    /\ ~result.returned.success
    /\ \E r \in stashes : \E t \in tags :
         /\ t.name = "t"
         /\ r.title = <<"T">>
         /\ r.id = Uuid(1)
         /\ CopiesIn(<<r.id, t.id>>, stash_tags) = 1

CountFields == {"collections", "stashes", "tags"}

\* C16: every dictionary import_from_json returns, for a success, for JSON that
\* does not parse and for a rolled-back failure, has exactly the fields success,
\* error, created and skipped, the last two with collections, stashes and tags.
C16_ResultShape ==
    result.user # Guest =>
        /\ DOMAIN result.returned = {"success", "error", "created", "skipped"}
        /\ DOMAIN result.returned.created = CountFields
        /\ DOMAIN result.returned.skipped = CountFields

\* C17: every relay session has max_entries in 3..20: a start form asking for
\* less than 3 gets 3, for more than 20 gets 20, for no number or no integer
\* gets 8, and a session started from a stash gets 8.
C17_CapacityClamped ==
    [][/\ \A s \in relay_sessions' : s.max_entries \in 3..20
       /\ \A raw \in CapacityInputs, code \in Codes :
            relay_home(1, <<>>, <<>>, raw, code)
            => \A s \in relay_sessions' \ relay_sessions :
                 s.max_entries = IF raw.kind # "int" THEN 8
                                 ELSE IF raw.n < 3 THEN 3
                                 ELSE IF raw.n > 20 THEN 20
                                 ELSE raw.n
       /\ last'.op = "start_from_stash"
            => \A s \in relay_sessions' \ relay_sessions : s.max_entries = 8]_vars

\* one session was started from a stash and holds its body as prompt, another
\* asked for less than 3 entries
C17_Witness ==
    /\ last.op = "start_from_stash" /\ last.outcome = "started"
    /\ \E s, t \in relay_sessions :
        /\ s.max_entries = 3
        /\ t.max_entries = 8
        /\ t.prompt = <<"h", "i">>

\* C18: no two relay sessions have the same code, whatever sequence of sessions
\* was started from the form or from a stash.
C18_CodesUnique ==
    \A s, t \in relay_sessions : s.code = t.code => s = t

\* both codes are in use, one by a session started from a stash
C18_Witness ==
    /\ {s.code : s \in relay_sessions} = Codes
    /\ \E s \in relay_sessions : s.prompt = <<"h", "i">>

\* C19: an append whose body is empty after trimming, or longer than 240
\* characters after trimming, is rejected and changes neither the sessions nor
\* the entries; every stored entry body is non-empty and at most 240 long.
C19_BodyValidated ==
    [][last'.op = "add" =>
       /\ \A e \in relay_entries' : e.body # <<>> /\ Len(e.body) <= 240
       /\ \/ /\ last'.outcome \in {"empty", "too_long", "closed"}
             /\ relay_entries' = relay_entries
             /\ relay_sessions' = relay_sessions
          \/ \A code \in CodeInputs, b \in BodyInputs, caller \in Adders, a \in AuthorInputs :
                ~(/\ RelayByCode(relay_sessions, Upper(code)) # {}
                  /\ (Strip(b) = <<>> \/ Len(Strip(b)) > 240)
                  /\ relay_add(caller, code, b, a))]_vars

\* an open session with an entry refused a body of 241 characters
C19_Witness ==
    /\ last.op = "add" /\ last.outcome = "too_long"
    /\ \E s \in relay_sessions : ~s.is_closed /\ Count(relay_entries, s.id) >= 1

\* the indices of the items that have text once trimmed
Kept(items) == {i \in DOMAIN items : Strip(Str(items[i].text)) # <<>>}

\* the index of the k-th such item
KthKept(items, k) ==
    CHOOSE i \in Kept(items) : Cardinality({j \in Kept(items) : j <= i}) = k

\* C20: for every list of dicts and plain values, get_checklist after
\* set_checklist returns exactly the items whose trimmed text is non-empty, in
\* their order, each as {text: the trimmed text, done: a boolean}, done being
\* false for a plain value; the text of an item is str() of what it holds.
C20_ChecklistNormalised ==
    [][\A row \in stashes, payload \in ChecklistInputs :
         (payload.is_list /\ update_checklist(1, row.id, payload))
         => \A now_row \in stashes' :
              now_row.id = row.id =>
                LET out == get_checklist(now_row.checklist)
                    items == payload.items
                IN  /\ Len(out) = Cardinality(Kept(items))
                    /\ \A k \in 1..Len(out) :
                         out[k] = [text |-> Strip(Str(items[KthKept(items, k)].text)),
                                   done |-> /\ items[KthKept(items, k)].is_dict
                                            /\ items[KthKept(items, k)].done]]_vars

\* a stash holds the checklist [{"ok", false}] left of [{" ", true}, {" ok", false}]
C20_Witness ==
    \E row \in stashes :
        get_checklist(row.checklist) = <<[text |-> <<"o", "k">>, done |-> FALSE]>>

C22_ExportReadsOnly ==
    [][(result' # result /\ result'.doc = "GET /export")
        => UNCHANGED <<collections, tags, stashes, stash_tags, minted, pending, relayVars>>]_vars

\* an export that returned a stash with its tags was answered while an import was
\* between its flushes and its commit
C22_Witness ==
    /\ result.doc = "GET /export"
    /\ \E i \in DOMAIN result.returned.stashes : result.returned.stashes[i].tags # <<>>
    /\ \E c \in Connections : pending[c].active /\ pending[c].flushed.stashes # {}

\* the old ids the collection loop of a snapshot maps
MappedIds(data) == {data.collections[i].id : i \in DOMAIN data.collections}

\* C23: in an import that succeeds, a snapshot stash whose collection_id is not an
\* old id of the map but whose collection_name is the name of a collection of the
\* importing user is linked to that collection; the stash is left without a
\* collection only when neither the map nor the name lookup resolves.
C23_NameLookupFallback ==
    [][\A user \in Users, json_data \in Uploads :
         (/\ json_data.kind = "object"
          /\ import_from_json(user, json_data)
          /\ result'.returned.success)
         => \A i \in DOMAIN json_data.data.stashes :
              LET item == json_data.data.stashes[i]
                  named == {c \in collections' :
                              c.user_id = user /\ c.name = item.collection_name}
                  mapped == item.collection_id \in MappedIds(json_data.data)
              IN  \A row \in stashes' \ stashes :
                    row.id = item.id =>
                      /\ (~mapped /\ named # {}) => row.collection_id \in {c.id : c \in named}
                      /\ row.collection_id = NoCollection => (~mapped /\ named = {})]_vars

\* the tags that some stash refers to in a table of links
Referenced(links) == {l[2] : l \in BagToSet(links)}

\* C24: a Tag deletes itself when orphaned: whenever an operation (delete_tag,
\* edit_stash replacing the tags, delete_stash, bulk_delete) removes the last stash
\* reference to a tag, the tag is removed by that operation.
C24_OrphanTagsRemoved ==
    [][\A t \in tags :
         (t.id \in Referenced(stash_tags) /\ t.id \notin Referenced(stash_tags'))
            => t \notin tags']_vars

\* C25: bulk_delete removes exactly the listed stashes that the caller owns and
\* reports their number as 'deleted'; every listed stash of another user and every
\* unlisted stash is still there, unchanged, with its tag links.
C25_BulkDeleteOwnedOnly ==
    [][\A caller \in Users, stash_ids \in IdLists :
         (/\ stash_ids # <<>>
          /\ result'.doc = "POST /stash/bulk/delete"
          /\ result'.user = caller
          /\ minted' = minted
          /\ bulk_delete(caller, stash_ids))
         => LET listed == {stash_ids[i] : i \in DOMAIN stash_ids}
                gone == {s \in stashes : s.id \in listed /\ s.user_id = caller}
            IN  /\ stashes' = stashes \ gone
                /\ result'.returned.deleted = Cardinality(gone)
                /\ \A s \in stashes \ gone :
                     s \in stashes' /\ LinksOf(stash_tags', s.id) = LinksOf(stash_tags, s.id)]_vars

\* a bulk_delete that listed a stash of the caller and one of another user reported
\* one deletion and the other user's stash is in the store
C25_Witness ==
    /\ result.doc = "POST /stash/bulk/delete"
    /\ result.returned.success
    /\ result.returned.deleted = 1
    /\ \E s \in stashes : s.user_id # result.user /\ s.id = "X"
    /\ ~\E s \in stashes : s.user_id = result.user

\* C26: bulk_move sets collection_id to the target for exactly the listed stashes
\* that the caller owns and leaves every other stash unchanged; when the target is
\* a collection the caller does not own the request is refused and no stash changes.
C26_BulkMoveOwnedOnly ==
    [][\A caller \in Users, stash_ids \in IdLists, collection_id \in TargetInputs :
         (/\ stash_ids # <<>>
          /\ result'.doc = "POST /stash/bulk/move"
          /\ result'.user = caller
          /\ minted' = minted
          /\ bulk_move(caller, stash_ids, collection_id))
         => LET listed == {stash_ids[i] : i \in DOMAIN stash_ids}
                own == {s \in stashes : s.id \in listed /\ s.user_id = caller}
                owned == \E c \in collections : c.id = collection_id /\ c.user_id = caller
            IN  IF collection_id # NoCollection /\ ~owned
                THEN stashes' = stashes /\ ~result'.returned.success
                ELSE /\ \A s \in own :
                          [s EXCEPT !.collection_id = collection_id] \in stashes'
                     /\ \A s \in stashes \ own : s \in stashes'
                     /\ Cardinality(stashes') = Cardinality(stashes)]_vars

\* a bulk_move was refused for a collection of another user, while a stash of the
\* caller sits in a collection of the caller and the other user's stash in theirs
C26_Witness ==
    /\ result.doc = "POST /stash/bulk/move"
    /\ result.returned.status = 403
    /\ \E s \in stashes, c \in collections :
         s.user_id = result.user /\ c.user_id = result.user /\ s.collection_id = c.id
    /\ \E s \in stashes, c \in collections :
         s.user_id # result.user /\ c.user_id # result.user /\ s.collection_id = c.id

\* C27: in every reachable state of a relay session, interleaved appends included,
\* the can_add flag of relay_view (not closed and fewer entries than max_entries)
\* is true exactly when relay_add would accept a valid body (not closed and the
\* largest position assigned below max_entries).
C27_CanAddMatchesAdd ==
    \A s \in relay_sessions :
        (~s.is_closed /\ Count(relay_entries, s.id) < s.max_entries)
            <=> (~s.is_closed /\ ~AtCapacity(MaxPosition(relay_entries, s.id), s.max_entries))

\* the columns of a relay session that are set at creation
Created(s) ==
    [id |-> s.id, code |-> s.code, owner_id |-> s.owner_id, title |-> s.title,
     prompt |-> s.prompt, max_entries |-> s.max_entries]

\* the sessions that a step changed: their row, or their entries
Touched ==
    {s \in relay_sessions :
        \/ s \notin relay_sessions'
        \/ EntriesOf(relay_entries', s.id) # EntriesOf(relay_entries, s.id)}

\* C28: a relay session changes only by entry-append and owner-close: its code,
\* owner, title, prompt and max_entries never change after creation; a committed
\* entry is never modified or removed; and an append or a close on one session
\* changes nothing in any other session.
C28_RelayChangesOnlyByAppendAndClose ==
    [][\/ relay_sessions' = relay_sessions /\ relay_entries' = relay_entries
       \/ /\ \A s \in relay_sessions :
               \E after \in relay_sessions' : Created(after) = Created(s)
          /\ relay_entries \subseteq relay_entries'
          /\ Cardinality(Touched) <= 1
          /\ \A s \in Touched :
               \/ /\ last'.op = "add"
                  /\ s \in relay_sessions'
                  /\ Cardinality(relay_entries' \ relay_entries) = 1
               \/ /\ last'.op = "close"
                  /\ relay_entries' = relay_entries
                  /\ \E after \in relay_sessions' :
                       after.id = s.id /\ after.is_closed]_vars

\* two sessions with a prompt hold an entry each and one of them has been closed
C28_Witness ==
    \E a, b \in relay_sessions :
        /\ a.id # b.id
        /\ a.prompt # <<>> /\ b.prompt # <<>>
        /\ a.is_closed /\ ~b.is_closed
        /\ EntriesOf(relay_entries, a.id) # {}
        /\ EntriesOf(relay_entries, b.id) # {}

\* C29: after any sequence of imports by any users, every collection and stash an
\* import created is owned by the user who ran it, and the collection link of every
\* imported stash is empty or refers to a collection of the user who owns the
\* stash, whatever ids the snapshot carries.
C29_ImportsStayWithImporter ==
    [][/\ \A c \in collections' \ collections : c.user_id = result'.user
       /\ \A s \in stashes' \ stashes : s.user_id = result'.user
       /\ \A s \in stashes' :
            \/ s.collection_id = NoCollection
            \/ \E c \in collections' : c.id = s.collection_id /\ c.user_id = s.user_id]_vars

\* both users imported a snapshot with a collection and a stash in it: each owns a
\* collection of that name and a stash linked to their own; and a user imported a
\* stash whose collection_id is the id of the other user's collection
C29_Witness ==
    /\ \A user \in Users :
         \E c \in collections, s \in stashes :
            /\ c.user_id = user /\ c.name = "work"
            /\ s.user_id = user /\ s.collection_id = c.id
    /\ \E s \in stashes, c \in collections :
         s.id = "V" /\ c.id = 1 /\ c.user_id # s.user_id

\* C30: on an import that succeeds, for each of collections, tags and stashes,
\* created + skipped is the number of items of that category in the snapshot, and
\* created is the number of rows of that category the import added to the store.
C30_CountsAddUp ==
    [][\A user \in Users, json_data \in Uploads :
         (/\ json_data.kind = "object"
          /\ result'.doc = json_data.name
          /\ result'.user = user
          /\ result'.returned.success
          /\ import_from_json(user, json_data))
         => LET created == result'.returned.created
                skipped == result'.returned.skipped
            IN  /\ created.collections + skipped.collections = Len(json_data.data.collections)
                /\ created.tags + skipped.tags = Len(json_data.data.tags)
                /\ created.stashes + skipped.stashes = Len(json_data.data.stashes)
                /\ created.collections = Cardinality(collections' \ collections)
                /\ created.tags = Cardinality(tags' \ tags)
                /\ created.stashes = Cardinality(stashes' \ stashes)]_vars

\* an import of a snapshot that names one collection twice and one tag twice
\* succeeded and reported some of them created and some skipped
C30_Witness ==
    /\ result.doc = "twice"
    /\ result.returned.success
    /\ result.returned.created.collections = 1
    /\ result.returned.skipped.collections = 1
    /\ result.returned.created.tags = 2
    /\ result.returned.skipped.tags = 1
    /\ result.returned.created.stashes = 1
    /\ result.returned.skipped.stashes = 1

====
